---- MODULE Spec2Model ----
(***************************************************************************)
(* Model of helper/anonymousChecker.py (AnonymousChecker) and of           *)
(* fetcher/freeproxyAdapter.py (FreeproxyAdapter.fetch_all) of proxy_pool. *)
(*                                                                         *)
(* Python strings are sequences of one-character strings, so that          *)
(* str.split, str.strip and the substring test `x in s` are computed the   *)
(* way Python computes them.  None is the one-element sequence <<"None">>, *)
(* which is no string over the alphabets used below.                       *)
(***************************************************************************)
EXTENDS Integers, Sequences, FiniteSets, TLC

VARIABLES
    pc,                 \* where the caller of the checker stands
    max_workers,        \* AnonymousChecker.max_workers
    self_real_ip,       \* AnonymousChecker._real_ip
    real_ip,            \* the real_ip handed to every _check_anonymous call
    all_proxies,        \* run(): all_proxies, the proxy strings of getAll()
    submitted,          \* run(): how many futures executor.submit has created
    futures,            \* one record per submitted or directly called probe
    consumed,           \* run(): futures the as_completed loop has handled
    anonymous_count,    \* run(): anonymous_count
    transparent_count,  \* run(): transparent_count
    failed_count,       \* run(): failed_count
    sink,               \* the proxies proxy_handler.putAnonymous stored, in order
    net_requests,       \* direct (unproxied) requests issued by _get_real_ip
    put_calls,          \* the proxies run() handed to putAnonymous, in order
    id_calls,           \* the calls of _get_real_ip on this checker, in order
    f_pc,               \* fetch_all(): where the generator stands
    f_src,              \* fetch_all(): index in `sources` of the running collector
    f_url,              \* the collector: index in its `urls` of the URL being read
    f_count,            \* the collector: items it has produced from this URL
    seen,               \* fetch_all(): seen
    f_yielded,          \* what fetch_all() has yielded, each with its origin
    f_produced,         \* every string a collector has produced
    f_fetched,          \* the <<source, url>> reads that have been requested
    f_failed            \* the <<source, url>> reads that ended in `except`

fetch_vars == <<f_pc, f_src, f_url, f_count, seen, f_yielded, f_produced,
                f_fetched, f_failed>>

vars == <<pc, max_workers, self_real_ip, real_ip, all_proxies, submitted,
          futures, consumed, anonymous_count, transparent_count,
          failed_count, sink, net_requests, put_calls, id_calls,
          fetch_vars>>

-----------------------------------------------------------------------------
(* Bounds of the model *)

\* longest origin field an echo-IP oracle answers with
MaxLen == 4
\* most entries of the header map an echo-headers oracle answers with
MaxHeaders == 2
\* most proxies getAll() returns
MaxCandidates == 2
\* largest worker pool
MaxPool == 2
\* most items a collector produces from one URL
MaxItems == 2
\* most calls of _get_real_ip on one checker
MaxCalls == 4
\* longest origin field the oracle answers a direct request with
MaxIpLen == 2

-----------------------------------------------------------------------------
(* Python values *)

None == <<"None">>

\* `x is not None` where truthiness is meant: the empty string passes
IsNotNone(x) == x /= None

\* Python truthiness of a value that is None or a str
Truthy(x) == x /= None /\ x /= <<>>

RECURSIVE StringsUpTo(_, _)
\* every string of at most n characters over the alphabet chars
StringsUpTo(chars, n) ==
    IF n = 0 THEN {<<>>}
    ELSE LET S == StringsUpTo(chars, n - 1)
         IN  S \cup {Append(s, c) : s \in {t \in S : Len(t) = n - 1}, c \in chars}

\* index of the first occurrence of the character sep in s, 0 when there is none
FirstIndex(s, sep) ==
    IF \E i \in 1..Len(s) : s[i] = sep
    THEN CHOOSE i \in 1..Len(s) : s[i] = sep /\ \A j \in 1..(i - 1) : s[j] /= sep
    ELSE 0

RECURSIVE Split(_, _)
\* str.split(sep) for a one-character sep: never empty, keeps empty pieces
Split(s, sep) ==
    LET i == FirstIndex(s, sep)
    IN  IF i = 0 THEN <<s>>
        ELSE <<SubSeq(s, 1, i - 1)>> \o Split(SubSeq(s, i + 1, Len(s)), sep)

RECURSIVE LStrip(_)
LStrip(s) == IF s /= <<>> /\ Head(s) = " " THEN LStrip(Tail(s)) ELSE s

RECURSIVE RStrip(_)
RStrip(s) ==
    IF s /= <<>> /\ s[Len(s)] = " " THEN RStrip(SubSeq(s, 1, Len(s) - 1)) ELSE s

\* str.strip()
Strip(s) == RStrip(LStrip(s))

\* `sub in s` for two str: sub is a substring of s
Contains(sub, s) ==
    \E i \in 0..(Len(s) - Len(sub)) : SubSeq(s, i + 1, i + Len(sub)) = sub

\* `x in lst` for a list: x equals an element
ListContains(x, lst) == \E i \in DOMAIN lst : lst[i] = x

-----------------------------------------------------------------------------
(* PROXY_HEADERS and the reasons _check_anonymous returns *)

PROXY_HEADERS ==
    << "X-Forwarded-For", "X-Real-Ip", "X-Forwarded", "Forwarded-For",
       "Forwarded", "Via", "X-Client-Ip", "Client-Ip", "True-Client-Ip",
       "Cf-Connecting-Ip" >>

ReasonExposesRealIp == <<"transparent proxy (exposes real IP)">>
ReasonMultiIp       == <<"ordinary anonymous (multiple IPs)">>
ReasonTransparent   == <<"transparent proxy">>
ReasonHeader(h)     == <<"header exposes", h>>
ReasonHighAnonymous == <<"high-anonymity proxy">>
ReasonTimeout       == <<"timeout">>
ReasonProxyError    == <<"proxy connection failed">>
ReasonException(e)  == <<"exception", e>>

\* the tuple _check_anonymous returns
Result(proxy, is_anonymous, origin, reason) ==
    [proxy |-> proxy, is_anonymous |-> is_anonymous, origin |-> origin,
     reason |-> reason]

-----------------------------------------------------------------------------
(* What the oracles answer through a candidate *)

\* alphabet of the origin field: two address characters, the separator, blank
OriginChars == {"a", "b", ",", " "}

\* the outcomes of requests.get / raise_for_status / json() that are no body
TransportFailures ==
    {"timeout", "proxy_error", "conn_error", "http_error", "bad_json"}

NoResponse == [kind |-> "none", field |-> "missing", value |-> <<>>]

\* echo-IP oracle: a failure, or a JSON object whose origin field is missing,
\* null, or a string of at most MaxLen characters
Stage1Responses ==
    {[kind |-> k, field |-> "missing", value |-> <<>>] : k \in TransportFailures}
    \cup {[kind |-> "ok", field |-> f, value |-> <<>>] : f \in {"missing", "null"}}
    \cup {[kind |-> "ok", field |-> "str", value |-> s] :
             s \in StringsUpTo(OriginChars, MaxLen)}

\* header names an echo-headers oracle may report: the first and the last
\* name of PROXY_HEADERS, and one name PROXY_HEADERS does not hold
ResponseHeaderNames == {"X-Forwarded-For", "Cf-Connecting-Ip", "Host"}

\* header values: empty, two addresses, and a value with an address inside
HeaderValues == {<<>>, <<"a">>, <<"b">>, <<"a", "a", "b">>}

HeaderMaps ==
    UNION {[D -> HeaderValues] :
             D \in {E \in SUBSET ResponseHeaderNames : Cardinality(E) <= MaxHeaders}}

\* echo-headers oracle: a failure, or a JSON object whose headers field is
\* missing, null, or a map of at most MaxHeaders entries
Stage2Responses ==
    {[kind |-> k, field |-> "missing", value |-> <<>>] : k \in TransportFailures}
    \cup {[kind |-> "ok", field |-> f, value |-> <<>>] : f \in {"missing", "null"}}
    \cup {[kind |-> "ok", field |-> "map", value |-> m] : m \in HeaderMaps}

\* the proxy strings, host:port, in the order in which the store lists them
StoreOrder == <<<<"a", ":", "8">>, <<"b", ":", "8">>, <<"a", "b", ":", "8">>>>

Proxies == {StoreOrder[i] : i \in DOMAIN StoreOrder}

\* real_ip arguments of a direct call of _check_anonymous
RealIpArgs == {None, <<>>, <<"a">>, <<"b">>, <<"a", "b">>}

-----------------------------------------------------------------------------
(* AnonymousChecker._check_anonymous *)

\* proxy_str.split(':')[0]
ProxyIp(proxy_str) == Split(proxy_str, ":")[1]

\* the except clauses: the result for an exception raised inside the outer try
ExceptResult(proxy, e) ==
    IF e = "timeout" THEN Result(proxy, FALSE, None, ReasonTimeout)
    ELSE IF e = "proxy_error" THEN Result(proxy, FALSE, None, ReasonProxyError)
    ELSE Result(proxy, FALSE, None, ReasonException(e))

\* the exception of requests.get(...), raise_for_status(), json().get(...) and
\* origin.split(','), "" when none is raised
Stage1Exception(resp) ==
    IF resp.kind /= "ok" THEN resp.kind
    ELSE IF resp.field = "null" THEN "attribute_error"
    ELSE ""

\* resp_ip.json().get("origin", "")
OriginField(resp) == IF resp.field = "missing" THEN <<>> ELSE resp.value

\* [ip.strip() for ip in origin.split(',')]
OriginIps(origin) ==
    LET parts == Split(origin, ",")
    IN  [i \in DOMAIN parts |-> Strip(parts[i])]

\* check 1 looking only at the entries after the first one
ExposesRealIpAfterFirst(ip, origin_ips) ==
    Truthy(ip) /\ \E i \in 2..Len(origin_ips) : origin_ips[i] = ip

\* check 1 looking only at the first entry
ExposesRealIpFirstOnly(ip, origin_ips) == Truthy(ip) /\ origin_ips[1] = ip

\* check 1: real_ip and real_ip in origin_ips
ExposesRealIp(ip, origin_ips) == Truthy(ip) /\ ListContains(ip, origin_ips)

\* check 2 off by one: len(origin_ips) > 2
MoreThanTwoOrigins(origin_ips) == Len(origin_ips) > 2

\* check 2: len(origin_ips) != 1
NotSingleOrigin(origin_ips) == Len(origin_ips) /= 1

\* the nested check deciding on the proxy address alone:
\* origin_ips[0] != proxy_ip
OriginDiffersFromProxy(proxy_ip, ip, origin_ips) == origin_ips[1] /= proxy_ip

\* the nested check: origin_ips[0] != proxy_ip and real_ip and
\* origin_ips[0] == real_ip
OriginIsRealIp(proxy_ip, ip, origin_ips) ==
    origin_ips[1] /= proxy_ip /\ Truthy(ip) /\ origin_ips[1] = ip

\* step 1 of _check_anonymous on the answer resp of the echo-IP oracle:
\* final says whether the function returns here; when it does not, result
\* holds the origin that step 2 goes on with
Stage1(proxy, ip, resp) ==
    LET e == Stage1Exception(resp)
        origin == OriginField(resp)
        origin_ips == OriginIps(origin)
    IN  IF e /= "" THEN [final |-> TRUE, result |-> ExceptResult(proxy, e)]
        ELSE IF ExposesRealIp(ip, origin_ips)
        THEN [final |-> TRUE,
              result |-> Result(proxy, FALSE, origin, ReasonExposesRealIp)]
        ELSE IF NotSingleOrigin(origin_ips)
        THEN [final |-> TRUE,
              result |-> Result(proxy, FALSE, origin, ReasonMultiIp)]
        ELSE IF OriginIsRealIp(ProxyIp(proxy), ip, origin_ips)
        THEN [final |-> TRUE,
              result |-> Result(proxy, FALSE, origin, ReasonTransparent)]
        ELSE [final |-> FALSE,
              result |-> Result(proxy, TRUE, origin, ReasonHighAnonymous)]

\* the exception of the second requests.get(...), raise_for_status(),
\* json().get(...) and response_headers.get(...), "" when none is raised
Stage2Exception(resp) ==
    IF resp.kind /= "ok" THEN resp.kind
    ELSE IF resp.field = "null" THEN "attribute_error"
    ELSE ""

\* resp_headers.json().get("headers", {})
HeadersField(resp) ==
    IF resp.field = "missing" THEN [h \in {} |-> <<>>] ELSE resp.value

\* response_headers.get(header, "")
HeaderValue(response_headers, header) ==
    IF header \in DOMAIN response_headers THEN response_headers[header] ELSE <<>>

\* the header test with == for in: header_value == real_ip
HeaderEqualsRealIp(header_value, ip) ==
    header_value /= <<>> /\ Truthy(ip) /\ header_value = ip

\* header_value and real_ip and real_ip in header_value
HeaderExposes(header_value, ip) ==
    header_value /= <<>> /\ Truthy(ip) /\ Contains(ip, header_value)

RECURSIVE FirstExposingHeader(_, _, _)
\* for header in PROXY_HEADERS, from index i on: the index of the first
\* header whose value exposes real_ip, 0 when the loop ends without one
FirstExposingHeader(response_headers, ip, i) ==
    IF i > Len(PROXY_HEADERS) THEN 0
    ELSE IF HeaderExposes(HeaderValue(response_headers, PROXY_HEADERS[i]), ip)
    THEN i
    ELSE FirstExposingHeader(response_headers, ip, i + 1)

\* step 2 without its own try: the exception reaches the outer except clauses
Stage2FailurePropagates(proxy, origin) == ExceptResult(proxy, "stage2")

\* except Exception around step 2: the headers check failed, the result of
\* step 1 stands
Stage2Failed(proxy, origin) == Result(proxy, TRUE, origin, ReasonHighAnonymous)

\* step 2 of _check_anonymous on the answer resp of the echo-headers oracle
Stage2(proxy, ip, origin, resp) ==
    IF Stage2Exception(resp) /= "" THEN Stage2Failed(proxy, origin)
    ELSE LET i == FirstExposingHeader(HeadersField(resp), ip, 1)
         IN  IF i /= 0
             THEN Result(proxy, FALSE, origin, ReasonHeader(PROXY_HEADERS[i]))
             ELSE Result(proxy, TRUE, origin, ReasonHighAnonymous)

-----------------------------------------------------------------------------
(* One probe: a call of _check_anonymous, alone or as a pool task *)

\* a probe before it runs
NewProbe(proxy, st) ==
    [proxy |-> proxy, st |-> st, resp_ip |-> NoResponse,
     resp_headers |-> NoResponse,
     result |-> Result(proxy, FALSE, None, <<"pending">>)]

\* the echo-IP oracle answers probe i with resp: the probe returns, or goes on
\* to issue the headers request
Stage1Returns(i, resp) ==
    LET r == Stage1(futures[i].proxy, real_ip, resp)
    IN  futures' = [futures EXCEPT
            ![i] = [@ EXCEPT !.st = IF r.final THEN "done" ELSE "stage2",
                             !.resp_ip = resp,
                             !.result = r.result]]

\* the echo-headers oracle answers probe i with resp: the probe returns
Stage2Returns(i, resp) ==
    LET f == futures[i]
    IN  futures' = [futures EXCEPT
            ![i] = [@ EXCEPT !.st = "done",
                             !.resp_headers = resp,
                             !.result = Stage2(f.proxy, real_ip,
                                               f.result.origin, resp)]]

\* no fetch_all() generator has been created
FetchIdle ==
    /\ f_pc = "idle"
    /\ f_src = 0
    /\ f_url = 0
    /\ f_count = 0
    /\ seen = {}
    /\ f_yielded = <<>>
    /\ f_produced = {}
    /\ f_fetched = {}
    /\ f_failed = {}

-----------------------------------------------------------------------------
(* SpecProbe: one direct call _check_anonymous(proxy, real_ip) *)

InitProbe ==
    /\ pc = "direct"
    /\ max_workers = 1
    /\ self_real_ip = None
    /\ real_ip \in RealIpArgs
    /\ \E p \in Proxies :
           /\ all_proxies = <<p>>
           /\ futures = <<NewProbe(p, "stage1")>>
    /\ submitted = 0
    /\ consumed = {}
    /\ anonymous_count = 0
    /\ transparent_count = 0
    /\ failed_count = 0
    /\ sink = <<>>
    /\ net_requests = 0
    /\ put_calls = <<>>
    /\ id_calls = <<>>
    /\ FetchIdle

ProbeStage1 ==
    /\ pc = "direct"
    /\ futures[1].st = "stage1"
    /\ \E resp \in Stage1Responses : Stage1Returns(1, resp)
    /\ UNCHANGED <<pc, max_workers, self_real_ip, real_ip, all_proxies,
                   submitted, consumed, anonymous_count, transparent_count,
                   failed_count, sink, net_requests>>
    /\ UNCHANGED <<put_calls, id_calls, fetch_vars>>

ProbeStage2 ==
    /\ pc = "direct"
    /\ futures[1].st = "stage2"
    /\ \E resp \in Stage2Responses : Stage2Returns(1, resp)
    /\ UNCHANGED <<pc, max_workers, self_real_ip, real_ip, all_proxies,
                   submitted, consumed, anonymous_count, transparent_count,
                   failed_count, sink, net_requests>>
    /\ UNCHANGED <<put_calls, id_calls, fetch_vars>>

NextProbe == ProbeStage1 \/ ProbeStage2

SpecProbe == InitProbe /\ [][NextProbe]_vars

-----------------------------------------------------------------------------
(* AnonymousChecker._get_real_ip and AnonymousChecker.run *)

\* what the oracles answer during a run: a choice of Stage1Responses and
\* Stage2Responses that reaches every branch of _check_anonymous
RunStage1Responses ==
    {[kind |-> k, field |-> "missing", value |-> <<>>] : k \in TransportFailures}
    \cup {[kind |-> "ok", field |-> "missing", value |-> <<>>]}
    \cup {[kind |-> "ok", field |-> "str", value |-> s] :
             s \in {<<"a">>, <<"b", "b">>, <<"b", ",", " ", "a">>}}

RunStage2Responses ==
    {[kind |-> "timeout", field |-> "missing", value |-> <<>>],
     [kind |-> "ok", field |-> "map", value |-> [h \in {"Host"} |-> <<"a">>]],
     [kind |-> "ok", field |-> "map",
      value |-> [h \in {"X-Forwarded-For"} |-> <<"a", "a", "b">>]]}

\* what the echo-IP oracle answers the direct request of _get_real_ip
RealIpResponses ==
    {[kind |-> k, field |-> "missing", value |-> <<>>] :
         k \in {"timeout", "conn_error", "http_error", "bad_json"}}
    \cup {[kind |-> "ok", field |-> "missing", value |-> <<>>],
          [kind |-> "ok", field |-> "str", value |-> <<" ", "a", ",", "b">>]}

RECURSIVE Listed(_, _)
\* the proxies of the set held, in store order from position i on
Listed(held, i) ==
    IF i > Len(StoreOrder) THEN <<>>
    ELSE (IF StoreOrder[i] \in held THEN <<StoreOrder[i]>> ELSE <<>>)
         \o Listed(held, i + 1)

\* the proxy lists getAll() may return: at most MaxCandidates proxies, no
\* proxy twice
ProxyLists ==
    {Listed(held, 1) : held \in {h \in SUBSET Proxies : Cardinality(h) <= MaxCandidates}}

\* resp.json().get("origin", "").split(',')[0].strip()
ParseRealIp(resp) == Strip(Split(OriginField(resp), ",")[1])

\* _get_real_ip keeping nothing of what it parsed
GetRealIpUncached(cached, resp) ==
    IF Stage1Exception(resp) /= ""
    THEN [value |-> None, cached |-> cached]
    ELSE [value |-> ParseRealIp(resp), cached |-> cached]

\* _get_real_ip answering a failure with an address it makes up
GetRealIpGuessing(cached, resp) ==
    IF Stage1Exception(resp) /= ""
    THEN [value |-> <<"a">>, cached |-> cached]
    ELSE [value |-> ParseRealIp(resp), cached |-> ParseRealIp(resp)]

\* _get_real_ip on the answer resp of the oracle: the value returned and the
\* new self._real_ip
GetRealIp(cached, resp) ==
    IF Stage1Exception(resp) /= ""
    THEN [value |-> None, cached |-> cached]
    ELSE [value |-> ParseRealIp(resp), cached |-> ParseRealIp(resp)]

\* probes whose request is in flight
InFlight == {i \in DOMAIN futures : futures[i].st \in {"stage1", "stage2"}}

\* _get_real_ip asking the oracle again after a failed attempt
RealIpRequestsWithRetry(cached) == IF Truthy(cached) THEN 0 ELSE 2

\* the direct requests one call of _get_real_ip issues: none when
\* self._real_ip is set, else one
RealIpRequests(cached) == IF Truthy(cached) THEN 0 ELSE 1

\* one call of self._get_real_ip(), the oracle answering resp when it is
\* asked: the value returned in real_ip, the cache, the request counted, and
\* the call recorded with whether its `except Exception` caught something
GetRealIpCall(resp) ==
    IF Truthy(self_real_ip)
    THEN /\ real_ip' = self_real_ip
         /\ id_calls' = Append(id_calls, [value |-> self_real_ip,
                                          requests |-> RealIpRequests(self_real_ip),
                                          caught |-> FALSE])
         /\ UNCHANGED <<self_real_ip, net_requests>>
    ELSE LET r == GetRealIp(self_real_ip, resp)
         IN  /\ real_ip' = r.value
             /\ self_real_ip' = r.cached
             /\ net_requests' = net_requests + RealIpRequests(self_real_ip)
             /\ id_calls' = Append(id_calls, [value |-> r.value,
                                              requests |-> RealIpRequests(self_real_ip),
                                              caught |-> Stage1Exception(resp) /= ""])

\* a pool that starts a thread for every task
PoolUnbounded == TRUE

\* ThreadPoolExecutor(max_workers): a thread is free to take a task
PoolHasIdleWorker == Cardinality(InFlight) < max_workers

\* a probe thread that hands its proxy to putAnonymous itself
ProbeStoresItself(calls, proxy) == Append(calls, proxy)

\* the calls of putAnonymous after a probe thread has finished
\* _check_anonymous: the function returns its tuple and calls nothing of
\* proxy_handler
ProbePutCalls(calls, proxy) == calls

\* a loop that takes the futures in the order they were submitted
CompletedInSubmissionOrder(i) ==
    /\ futures[i].st = "done"
    /\ i \notin consumed
    /\ \A j \in 1..(i - 1) : j \in consumed

\* as_completed(futures) can hand future i to the loop: it has finished and
\* the loop has not had it yet
Completed(i) ==
    /\ futures[i].st = "done"
    /\ i \notin consumed

\* the loop left at the first result handled
AnyHandled == consumed /= {}

\* as_completed(futures) is exhausted: every future has been handled
AllHandled == consumed = DOMAIN futures

Init ==
    /\ pc = "start"
    /\ max_workers \in 1..MaxPool
    /\ self_real_ip = None
    /\ real_ip = None
    /\ all_proxies = <<>>
    /\ submitted = 0
    /\ futures = <<>>
    /\ consumed = {}
    /\ anonymous_count = 0
    /\ transparent_count = 0
    /\ failed_count = 0
    /\ sink = <<>>
    /\ net_requests = 0
    /\ put_calls = <<>>
    /\ id_calls = <<>>
    /\ FetchIdle

\* run(): real_ip = self._get_real_ip()
RunGetRealIp ==
    /\ pc = "start"
    /\ \E resp \in RealIpResponses : GetRealIpCall(resp)
    /\ pc' = "get_all"
    /\ UNCHANGED <<max_workers, all_proxies, submitted, futures, consumed,
                   anonymous_count, transparent_count, failed_count, sink>>
    /\ UNCHANGED <<put_calls, fetch_vars>>

\* run(): all_proxies = getAll(); if not all_proxies: return the zero counters
RunGetAll ==
    /\ pc = "get_all"
    /\ \E ps \in ProxyLists :
           /\ all_proxies' = ps
           /\ pc' = IF ps = <<>> THEN "returned" ELSE "submit"
    /\ UNCHANGED <<max_workers, self_real_ip, real_ip, submitted, futures,
                   consumed, anonymous_count, transparent_count, failed_count,
                   sink, net_requests>>
    /\ UNCHANGED <<put_calls, id_calls, fetch_vars>>

\* run(): executor.submit(self._check_anonymous, proxy, real_ip), one proxy
\* of the dict comprehension at a time
RunSubmit ==
    /\ pc = "submit"
    /\ submitted' = submitted + 1
    /\ futures' = Append(futures, NewProbe(all_proxies[submitted + 1], "queued"))
    /\ pc' = IF submitted + 1 = Len(all_proxies) THEN "loop" ELSE "submit"
    /\ UNCHANGED <<max_workers, self_real_ip, real_ip, all_proxies, consumed,
                   anonymous_count, transparent_count, failed_count, sink,
                   net_requests>>
    /\ UNCHANGED <<put_calls, id_calls, fetch_vars>>

\* a pool thread takes the oldest queued task and issues its first request
WorkerStart ==
    /\ pc \in {"submit", "loop", "raised"}
    /\ PoolHasIdleWorker
    /\ \E i \in DOMAIN futures :
           /\ futures[i].st = "queued"
           /\ \A j \in 1..(i - 1) : futures[j].st /= "queued"
           /\ futures' = [futures EXCEPT ![i].st = "stage1"]
    /\ UNCHANGED <<pc, max_workers, self_real_ip, real_ip, all_proxies,
                   submitted, consumed, anonymous_count, transparent_count,
                   failed_count, sink, net_requests>>
    /\ UNCHANGED <<put_calls, id_calls, fetch_vars>>

WorkerStage1 ==
    /\ pc \in {"submit", "loop", "raised"}
    /\ \E i \in DOMAIN futures :
           /\ futures[i].st = "stage1"
           /\ \E resp \in RunStage1Responses : Stage1Returns(i, resp)
    /\ UNCHANGED <<pc, max_workers, self_real_ip, real_ip, all_proxies,
                   submitted, consumed, anonymous_count, transparent_count,
                   failed_count, sink, net_requests>>
    /\ UNCHANGED <<put_calls, id_calls, fetch_vars>>

WorkerStage2 ==
    /\ pc \in {"submit", "loop", "raised"}
    /\ \E i \in DOMAIN futures :
           /\ futures[i].st = "stage2"
           /\ put_calls' = ProbePutCalls(put_calls, futures[i].proxy)
           /\ \E resp \in RunStage2Responses : Stage2Returns(i, resp)
    /\ UNCHANGED <<pc, max_workers, self_real_ip, real_ip, all_proxies,
                   submitted, consumed, anonymous_count, transparent_count,
                   failed_count, sink, net_requests>>
    /\ UNCHANGED <<id_calls, fetch_vars>>

\* the loop without its `origin is None` branch
ClassifyWithoutFailed(result) ==
    IF result.is_anonymous THEN "anonymous" ELSE "transparent"

\* the loop with `continue` where the transparent counter is incremented
ClassifyDropsTransparent(result) ==
    IF result.origin = None THEN "failed"
    ELSE IF result.is_anonymous THEN "anonymous"
    ELSE "skipped"

\* the branch one iteration of the as_completed loop takes for a result
Classify(result) ==
    IF result.origin = None THEN "failed"
    ELSE IF result.is_anonymous THEN "anonymous"
    ELSE "transparent"

\* run(): one iteration of `for future in as_completed(futures)` on a
\* completed future the loop has not yet been handed; put_ok says whether
\* proxy_handler.putAnonymous returns (TRUE) or raises (FALSE), which ends
\* run() before the iteration counts anything
RunConsume ==
    /\ pc = "loop"
    /\ \E i \in DOMAIN futures, put_ok \in BOOLEAN :
           /\ Completed(i)
           /\ LET c == Classify(futures[i].result)
              IN  /\ c /= "anonymous" => put_ok
                  /\ consumed' = IF put_ok THEN consumed \cup {i} ELSE consumed
                  /\ failed_count' =
                         IF c = "failed" THEN failed_count + 1 ELSE failed_count
                  /\ sink' =
                         IF c = "anonymous" /\ put_ok
                         THEN Append(sink, futures[i].result.proxy) ELSE sink
                  /\ put_calls' =
                         IF c = "anonymous"
                         THEN Append(put_calls, futures[i].result.proxy)
                         ELSE put_calls
                  /\ anonymous_count' =
                         IF c = "anonymous" /\ put_ok
                         THEN anonymous_count + 1 ELSE anonymous_count
                  /\ transparent_count' =
                         IF c = "transparent"
                         THEN transparent_count + 1 ELSE transparent_count
                  /\ pc' = IF put_ok THEN "loop" ELSE "raised"
    /\ UNCHANGED <<max_workers, self_real_ip, real_ip, all_proxies, submitted,
                   futures, net_requests>>
    /\ UNCHANGED <<id_calls, fetch_vars>>

\* run(): the loop and the with block end, the counters are returned
RunReturn ==
    /\ pc = "loop"
    /\ AllHandled
    /\ pc' = "returned"
    /\ UNCHANGED <<max_workers, self_real_ip, real_ip, all_proxies, submitted,
                   futures, consumed, anonymous_count, transparent_count,
                   failed_count, sink, net_requests>>
    /\ UNCHANGED <<put_calls, id_calls, fetch_vars>>

Next ==
    \/ RunGetRealIp
    \/ RunGetAll
    \/ RunSubmit
    \/ WorkerStart
    \/ WorkerStage1
    \/ WorkerStage2
    \/ RunConsume
    \/ RunReturn

Spec == Init /\ [][Next]_vars

-----------------------------------------------------------------------------
(* SpecFetch: one generator FreeproxyAdapter.fetch_all(), run to its end *)

\* fetch_all(): sources, the collectors in the order they are run
Sources ==
    <<"TheSpeedX", "ProxyScrape", "Geonode", "FreeProxyList",
      "ProxyListDownload", "Sunny9577", "Clarketm">>

\* how many URLs each collector reads
SourceUrls == <<1, 1, 1, 1, 2, 1, 1>>

\* the collectors that read fields of JSON records inside their loop, where
\* item.get raises on a record that is no object
RecordSources == {2, 3}

\* the host:port strings the upstream lists hold
Endpoints == {StoreOrder[1], StoreOrder[2]}

\* every <<source, url>> read one fetch_all() makes
AllReads ==
    {r \in (DOMAIN Sources) \X (1..2) : r[2] <= SourceUrls[r[1]]}

\* where fetch_all() goes on when the read <<src, url>> is over: the next
\* URL of the collector, else the next collector, else the end of the generator
NextRead(src, url) ==
    IF url < SourceUrls[src]
    THEN [pc |-> "request", src |-> src, url |-> url + 1]
    ELSE IF src < Len(Sources)
    THEN [pc |-> "request", src |-> src + 1, url |-> 1]
    ELSE [pc |-> "done", src |-> src, url |-> url]

\* an exception of a collector leaving fetch_all()
FailureAbortsMerge(src, url) ==
    [pc |-> "raised", src |-> src, url |-> url]

\* an exception ending the whole collector, its other URLs unread
FailureEndsCollector(src, url) ==
    IF src < Len(Sources)
    THEN [pc |-> "request", src |-> src + 1, url |-> 1]
    ELSE [pc |-> "done", src |-> src, url |-> url]

\* where fetch_all() goes on after the `except` of a collector: the try is
\* inside `for url in urls`, so the collector's next URL is still read
ReadAfterFailure(src, url) == NextRead(src, url)

\* a merge that hands out the newest string first
EmitNewestFirst(yielded, item) == <<item>> \o yielded

\* fetch_all(): `yield proxy` inside the two loops, so the consumer gets the
\* strings in the order the loops reach them; item.n is the position of the
\* string among those its collector produced from the URL
Emit(yielded, item) == Append(yielded, item)

\* fetch_all() without its seen test
NeverSeen(proxy, s) == TRUE

\* fetch_all(): `if proxy not in seen`
Unseen(proxy, s) == proxy \notin s

InitFetch ==
    /\ pc = "fetch"
    /\ max_workers = 1
    /\ self_real_ip = None
    /\ real_ip = None
    /\ all_proxies = <<>>
    /\ submitted = 0
    /\ futures = <<>>
    /\ consumed = {}
    /\ anonymous_count = 0
    /\ transparent_count = 0
    /\ failed_count = 0
    /\ sink = <<>>
    /\ net_requests = 0
    /\ put_calls = <<>>
    /\ id_calls = <<>>
    /\ f_pc = "request"
    /\ f_src = 1
    /\ f_url = 1
    /\ f_count = 0
    /\ seen = {}
    /\ f_yielded = <<>>
    /\ f_produced = {}
    /\ f_fetched = {}
    /\ f_failed = {}

\* fetch_all() moves to the position `to`
FetchGoto(to) ==
    /\ f_pc' = to.pc
    /\ f_src' = to.src
    /\ f_url' = to.url
    /\ f_count' = 0

\* the collector: resp = self.session.get(url); resp.raise_for_status() and
\* the parse of the body, which either give the items to iterate or raise
FetchRequest ==
    /\ f_pc = "request"
    /\ f_fetched' = f_fetched \cup {<<f_src, f_url>>}
    /\ \E ok \in BOOLEAN :
           IF ok
           THEN /\ f_pc' = "iterate"
                /\ UNCHANGED <<f_src, f_url, f_count, f_failed>>
           ELSE /\ f_failed' = f_failed \cup {<<f_src, f_url>>}
                /\ FetchGoto(ReadAfterFailure(f_src, f_url))
    /\ UNCHANGED <<seen, f_yielded, f_produced>>
    /\ UNCHANGED <<pc, max_workers, self_real_ip, real_ip, all_proxies,
                   submitted, futures, consumed, anonymous_count,
                   transparent_count, failed_count, sink, net_requests,
                   put_calls, id_calls>>

\* the collector yields one string and fetch_all() runs its loop body on it
FetchItem ==
    /\ f_pc = "iterate"
    /\ f_count < MaxItems
    /\ \E proxy \in Endpoints :
           /\ f_produced' = f_produced \cup {proxy}
           /\ IF Unseen(proxy, seen)
              THEN /\ seen' = seen \cup {proxy}
                   /\ f_yielded' =
                          Emit(f_yielded,
                               [proxy |-> proxy, src |-> f_src, url |-> f_url,
                                n |-> f_count + 1])
              ELSE UNCHANGED <<seen, f_yielded>>
    /\ f_count' = f_count + 1
    /\ UNCHANGED <<f_pc, f_src, f_url, f_fetched, f_failed>>
    /\ UNCHANGED <<pc, max_workers, self_real_ip, real_ip, all_proxies,
                   submitted, futures, consumed, anonymous_count,
                   transparent_count, failed_count, sink, net_requests,
                   put_calls, id_calls>>

\* a JSON collector meets a record it cannot read: item.get raises inside
\* the loop, after the items before it have been yielded
FetchItemFails ==
    /\ f_pc = "iterate"
    /\ f_src \in RecordSources
    /\ f_failed' = f_failed \cup {<<f_src, f_url>>}
    /\ FetchGoto(ReadAfterFailure(f_src, f_url))
    /\ UNCHANGED <<seen, f_yielded, f_produced, f_fetched>>
    /\ UNCHANGED <<pc, max_workers, self_real_ip, real_ip, all_proxies,
                   submitted, futures, consumed, anonymous_count,
                   transparent_count, failed_count, sink, net_requests,
                   put_calls, id_calls>>

\* the items of the URL are exhausted; after a collector's last URL
\* fetch_all() sleeps and takes the next source
FetchEndUrl ==
    /\ f_pc = "iterate"
    /\ FetchGoto(NextRead(f_src, f_url))
    /\ UNCHANGED <<seen, f_yielded, f_produced, f_fetched, f_failed>>
    /\ UNCHANGED <<pc, max_workers, self_real_ip, real_ip, all_proxies,
                   submitted, futures, consumed, anonymous_count,
                   transparent_count, failed_count, sink, net_requests,
                   put_calls, id_calls>>

NextFetch ==
    \/ FetchRequest
    \/ FetchItem
    \/ FetchItemFails
    \/ FetchEndUrl

SpecFetch == InitFetch /\ [][NextFetch]_vars

-----------------------------------------------------------------------------
(* SpecIdentity: repeated calls of _get_real_ip() on one checker *)

\* what the echo-IP oracle may answer a direct request: a failure, or a JSON
\* object whose origin field is missing, null, or a string of at most
\* MaxIpLen characters
IdentityResponses ==
    {[kind |-> k, field |-> "missing", value |-> <<>>] : k \in TransportFailures}
    \cup {[kind |-> "ok", field |-> f, value |-> <<>>] : f \in {"missing", "null"}}
    \cup {[kind |-> "ok", field |-> "str", value |-> s] :
             s \in StringsUpTo(OriginChars, MaxIpLen)}

InitIdentity ==
    /\ pc = "identity"
    /\ max_workers = 1
    /\ self_real_ip = None
    /\ real_ip = None
    /\ all_proxies = <<>>
    /\ submitted = 0
    /\ futures = <<>>
    /\ consumed = {}
    /\ anonymous_count = 0
    /\ transparent_count = 0
    /\ failed_count = 0
    /\ sink = <<>>
    /\ net_requests = 0
    /\ put_calls = <<>>
    /\ id_calls = <<>>
    /\ FetchIdle

\* a caller invokes self._get_real_ip() once more
IdentityCall ==
    /\ pc = "identity"
    /\ Len(id_calls) < MaxCalls
    /\ \E resp \in IdentityResponses : GetRealIpCall(resp)
    /\ UNCHANGED <<pc, max_workers, all_proxies, submitted, futures, consumed,
                   anonymous_count, transparent_count, failed_count, sink,
                   put_calls, fetch_vars>>

NextIdentity == IdentityCall

SpecIdentity == InitIdentity /\ [][NextIdentity]_vars

-----------------------------------------------------------------------------
(* The claims *)

\* probe i has had the answer of the echo-IP oracle
Answered(i) == futures[i].st \in {"stage2", "done"}

\* the echo-IP oracle answered probe i with a JSON object holding a string
HasOrigin(i) ==
    /\ Answered(i)
    /\ futures[i].resp_ip.kind = "ok"
    /\ futures[i].resp_ip.field = "str"

\* the origin list of probe i: the origin field split on commas, trimmed
ObservedOriginIps(i) == OriginIps(futures[i].resp_ip.value)

\* probe i returned Transparent without issuing the headers request
TransparentAtStage1(i) ==
    /\ futures[i].st = "done"
    /\ futures[i].result.is_anonymous = FALSE
    /\ futures[i].result.origin /= None
    /\ futures[i].resp_headers = NoResponse

\* C1: when the real identity is known and is an element of the stage-1
\* origin list, the probe is Transparent (is_anonymous False, origin not
\* None), whatever the length of the list and the candidate's own IP, and
\* without asking the header oracle.
C1_IdentityInOriginsIsTransparent ==
    \A i \in DOMAIN futures :
        (/\ HasOrigin(i)
         /\ real_ip \notin {None, <<>>}
         /\ \E k \in DOMAIN ObservedOriginIps(i) : ObservedOriginIps(i)[k] = real_ip)
        => TransparentAtStage1(i)

\* C1 witness: the one origin reported is the identity and is also the
\* candidate's own IP, and the probe has returned.
C1_Witness ==
    \E i \in DOMAIN futures :
        /\ HasOrigin(i)
        /\ futures[i].st = "done"
        /\ real_ip \notin {None, <<>>}
        /\ ObservedOriginIps(i) = <<real_ip>>
        /\ ProxyIp(futures[i].proxy) = real_ip

\* C2: when the stage-1 origin list has more than one entry the probe is
\* Transparent, whether or not the identity is known, and the stage-2
\* header request is not issued.
C2_MultipleOriginsIsTransparent ==
    \A i \in DOMAIN futures :
        (HasOrigin(i) /\ Len(ObservedOriginIps(i)) > 1) => TransparentAtStage1(i)

\* C2 witness: two origins reported, none of them the identity, which is
\* unknown, and the probe has returned.
C2_Witness ==
    \E i \in DOMAIN futures :
        /\ HasOrigin(i)
        /\ futures[i].st = "done"
        /\ real_ip = None
        /\ Len(ObservedOriginIps(i)) = 2

\* probe i is in Scenario B: the identity is known and the origin list is
\* the candidate's own IP followed by the identity
ScenarioB(i) ==
    /\ HasOrigin(i)
    /\ real_ip \notin {None, <<>>}
    /\ ObservedOriginIps(i) = <<ProxyIp(futures[i].proxy), real_ip>>

\* C3 as stated: in Scenario B the probe is Transparent and the reason is the
\* multiple-origins reason.
C3_ScenarioBReasonIsMultipleOrigins ==
    \A i \in DOMAIN futures :
        ScenarioB(i) =>
            /\ TransparentAtStage1(i)
            /\ futures[i].result.reason = ReasonMultiIp

\* C3 as amended: in Scenario B the probe is Transparent and the reason is
\* the exposes-real-identity reason, check 1 being made before check 2.
C3_ScenarioBReasonIsExposesRealIp ==
    \A i \in DOMAIN futures :
        ScenarioB(i) =>
            /\ TransparentAtStage1(i)
            /\ futures[i].result.reason = ReasonExposesRealIp

\* C3 witness: Scenario B with the origin field written "b, a", the
\* candidate b:8 and the identity a, and the probe has returned.
C3_Witness ==
    \E i \in DOMAIN futures :
        /\ ScenarioB(i)
        /\ futures[i].st = "done"
        /\ futures[i].resp_ip.value = <<"b", ",", " ", "a">>
        /\ ProxyIp(futures[i].proxy) /= real_ip

\* putAnonymous has been called with the proxy string p
InSink(p) == \E k \in DOMAIN sink : sink[k] = p

\* the stage-1 request of probe i failed at transport level
TransportFailed(i) ==
    /\ Answered(i)
    /\ futures[i].resp_ip.kind \in
           {"timeout", "proxy_error", "conn_error", "http_error", "bad_json"}

\* the reason the except clauses give for a failure kind
FailureReason(kind) ==
    IF kind = "timeout" THEN ReasonTimeout
    ELSE IF kind = "proxy_error" THEN ReasonProxyError
    ELSE ReasonException(kind)

\* C4: a stage-1 transport failure (timeout, proxy connection error, HTTP
\* error status, unparseable body) ends the probe as Failed (origin None,
\* is_anonymous False) with the reason of that failure, the stage-2 request
\* is never issued, the coordinator counts the candidate in failed only, and
\* the candidate is never written to the sink.
C4_Stage1FailureIsFailed ==
    /\ \A i \in DOMAIN futures :
           TransportFailed(i) =>
               /\ futures[i].st = "done"
               /\ futures[i].result.origin = None
               /\ futures[i].result.is_anonymous = FALSE
               /\ futures[i].result.reason = FailureReason(futures[i].resp_ip.kind)
               /\ futures[i].resp_headers = NoResponse
               /\ ~InSink(futures[i].proxy)
    /\ Cardinality({i \in consumed : TransportFailed(i)}) <= failed_count
    /\ anonymous_count + transparent_count
           <= Cardinality({i \in consumed : ~TransportFailed(i)})

\* C4 witness: the loop has counted a candidate whose stage-1 request timed
\* out, and another one that did not fail.
C4_Witness ==
    \E i, j \in consumed :
        /\ futures[i].resp_ip.kind = "timeout"
        /\ ~TransportFailed(j)
        /\ failed_count = 1

\* the stage-1 answer of probe i is a JSON object without an origin field,
\* or with an empty one
MalformedStage1(i) ==
    /\ Answered(i)
    /\ futures[i].resp_ip.kind = "ok"
    /\ \/ futures[i].resp_ip.field = "missing"
       \/ futures[i].resp_ip.field = "str" /\ futures[i].resp_ip.value = <<>>

\* C5: a stage-1 answer that is a JSON object lacking the origin field (or
\* carrying an empty one) makes the candidate Failed: the probe returns
\* origin None, the candidate is counted in failed, never as anonymous, and
\* is never written to the sink.
C5_MalformedStage1IsFailed ==
    /\ \A i \in DOMAIN futures :
           MalformedStage1(i) =>
               /\ futures[i].st = "done" =>
                      /\ futures[i].result.origin = None
                      /\ futures[i].result.is_anonymous = FALSE
               /\ ~InSink(futures[i].proxy)
    /\ Cardinality({i \in consumed : MalformedStage1(i)}) <= failed_count

\* the stage-2 request of probe i succeeded: a JSON object came back
Stage2Succeeded(i) ==
    /\ futures[i].st = "done"
    /\ futures[i].resp_headers.kind = "ok"
    /\ futures[i].resp_headers.field \in {"map", "missing"}

\* the header h of PROXY_HEADERS was reported to probe i with a value that
\* contains the known identity
Leaks(i, h) ==
    /\ real_ip \notin {None, <<>>}
    /\ futures[i].resp_headers.field = "map"
    /\ h \in DOMAIN futures[i].resp_headers.value
    /\ Contains(real_ip, futures[i].resp_headers.value[h])

\* C6: when stage 1 passed and the stage-2 request succeeded, the result is
\* Transparent exactly when the identity is known and the value of a header
\* of PROXY_HEADERS contains it, the reason then naming such a header;
\* otherwise the result is Anonymous.  Either way the origin returned is the
\* stage-1 origin.
C6_HeaderLeakDecidesStage2 ==
    \A i \in DOMAIN futures :
        Stage2Succeeded(i) =>
            /\ futures[i].result.origin = OriginField(futures[i].resp_ip)
            /\ IF \E k \in DOMAIN PROXY_HEADERS : Leaks(i, PROXY_HEADERS[k])
               THEN /\ futures[i].result.is_anonymous = FALSE
                    /\ \E k \in DOMAIN PROXY_HEADERS :
                           /\ Leaks(i, PROXY_HEADERS[k])
                           /\ futures[i].result.reason = ReasonHeader(PROXY_HEADERS[k])
               ELSE /\ futures[i].result.is_anonymous = TRUE
                    /\ futures[i].result.reason = ReasonHighAnonymous

\* C6 witness, Scenario A: the identity is known, the one origin reported is
\* the candidate's own IP, the header oracle reports a header of
\* PROXY_HEADERS whose value does not contain the identity, and the probe
\* returned Anonymous.
C6_Witness ==
    \E i \in DOMAIN futures :
        /\ Stage2Succeeded(i)
        /\ real_ip \notin {None, <<>>}
        /\ ObservedOriginIps(i) = <<ProxyIp(futures[i].proxy)>>
        /\ futures[i].resp_headers.field = "map"
        /\ "X-Forwarded-For" \in DOMAIN futures[i].resp_headers.value
        /\ futures[i].resp_headers.value["X-Forwarded-For"] /= <<>>
        /\ futures[i].result.is_anonymous = TRUE

\* the stage-2 request of probe i failed: transport failure, or a body that
\* holds no header map
Stage2FailedAt(i) ==
    /\ futures[i].st = "done"
    /\ \/ futures[i].resp_headers.kind \in
              {"timeout", "proxy_error", "conn_error", "http_error", "bad_json"}
       \/ futures[i].resp_headers.kind = "ok" /\ futures[i].resp_headers.field = "null"

\* C7: a failure of the stage-2 request is not fatal: the probe ends
\* Anonymous with the stage-1 origin, never Failed or Transparent; a Failed
\* result comes from stage 1 only, the stage-2 request not having been issued.
C7_Stage2FailureKeepsAnonymous ==
    \A i \in DOMAIN futures :
        /\ Stage2FailedAt(i) =>
               /\ futures[i].result.is_anonymous = TRUE
               /\ futures[i].result.origin /= None
               /\ futures[i].result.origin = OriginField(futures[i].resp_ip)
               /\ futures[i].result.reason = ReasonHighAnonymous
        /\ (futures[i].st = "done" /\ futures[i].result.origin = None) =>
               /\ futures[i].resp_headers = NoResponse
               /\ \/ futures[i].resp_ip.kind /= "ok"
                  \/ futures[i].resp_ip.field = "null"

\* C7 witness: the identity is known, stage 1 passed, the stage-2 request
\* timed out and the probe has returned.
C7_Witness ==
    \E i \in DOMAIN futures :
        /\ Stage2FailedAt(i)
        /\ futures[i].resp_headers.kind = "timeout"
        /\ real_ip \notin {None, <<>>}

\* the stage-1 request of probe i succeeded: a JSON object came back whose
\* origin field is a string or is missing
Stage1Succeeded(i) ==
    /\ Answered(i)
    /\ futures[i].resp_ip.kind = "ok"
    /\ futures[i].resp_ip.field \in {"str", "missing"}

C9_ForeignOriginIsNotAnonymous ==
    \A i \in DOMAIN futures :
        (/\ HasOrigin(i)
         /\ Len(ObservedOriginIps(i)) = 1
         /\ ObservedOriginIps(i)[1] /= <<>>
         /\ ObservedOriginIps(i)[1] /= ProxyIp(futures[i].proxy)
         /\ ObservedOriginIps(i)[1] /= real_ip)
        => /\ ~(futures[i].st = "done" /\ futures[i].result.is_anonymous)
           /\ ~InSink(futures[i].proxy)

\* C10: every result the loop has handled has incremented exactly one
\* counter, the one of its class, exactly once, so the three counters add up
\* to the number of results handled; when run() returns, every candidate of
\* getAll() has been handled and the counters add up to their number.
C10_CountersAddUp ==
    /\ failed_count =
           Cardinality({i \in consumed : futures[i].result.origin = None})
    /\ anonymous_count =
           Cardinality({i \in consumed : /\ futures[i].result.origin /= None
                                         /\ futures[i].result.is_anonymous})
    /\ transparent_count =
           Cardinality({i \in consumed : /\ futures[i].result.origin /= None
                                         /\ ~futures[i].result.is_anonymous})
    /\ anonymous_count + transparent_count + failed_count = Cardinality(consumed)
    /\ pc = "returned" =>
           /\ consumed = DOMAIN all_proxies
           /\ anonymous_count + transparent_count + failed_count = Len(all_proxies)

\* C10 witness: run() with a pool of two has returned after two candidates,
\* one counted as transparent and one as failed.
C10_Witness ==
    /\ pc = "returned"
    /\ Len(all_proxies) = 2
    /\ transparent_count = 1
    /\ failed_count = 1
    /\ max_workers = 2

\* probe i returned an Anonymous result: an origin, and is_anonymous True
AnonymousResult(i) ==
    /\ futures[i].st = "done"
    /\ futures[i].result.origin /= None
    /\ futures[i].result.is_anonymous

\* every probe of the run has returned and run() has ended, by its return
\* statement or by an exception leaving the as_completed loop
RunEnded ==
    /\ pc \in {"returned", "raised"}
    /\ Len(futures) = Len(all_proxies)
    /\ \A i \in DOMAIN futures : futures[i].st = "done"

\* how many times run() has handed the proxy of candidate i to putAnonymous
PutCalls(i) ==
    Cardinality({k \in DOMAIN put_calls : put_calls[k] = futures[i].proxy})

\* C11: once run() has ended, putAnonymous has been called exactly once for
\* every candidate whose probe result is Anonymous and never for a candidate
\* whose result is Transparent or Failed; and in every state the number of
\* proxies the sink has stored equals the anonymous counter.
C11_PutOncePerAnonymous ==
    /\ Len(sink) = anonymous_count
    /\ RunEnded =>
           \A i \in DOMAIN futures :
               PutCalls(i) = IF AnonymousResult(i) THEN 1 ELSE 0

\* C12: no failure of identity resolution, of a probe stage or of a sink
\* write makes run() raise.
C12_RunNeverRaises == pc /= "raised"

\* C13: when getAll() returns no candidate, run() returns the zero counters
\* and has issued no network request, neither the identity request nor a
\* probe request.
C13_EmptySetNoNetwork ==
    (pc = "returned" /\ all_proxies = <<>>) =>
        /\ anonymous_count = 0
        /\ transparent_count = 0
        /\ failed_count = 0
        /\ futures = <<>>
        /\ net_requests = 0

\* the strings fetch_all() has yielded
YieldedStrings == {f_yielded[k].proxy : k \in DOMAIN f_yielded}

\* C14: in every state of a fetch_all() call the yielded sequence holds
\* every string a collector has produced so far, and holds it once: a repeat
\* from the same or from a later collector adds nothing.
C14_EachProducedStringOnce ==
    /\ YieldedStrings = f_produced
    /\ \A k, l \in DOMAIN f_yielded :
           k /= l => f_yielded[k].proxy /= f_yielded[l].proxy

\* C14 witness: a later collector has produced two strings, both of them
\* yielded before on behalf of the first collector, and nothing was added.
C14_Witness ==
    /\ f_pc = "iterate"
    /\ f_src > 1
    /\ f_count = 2
    /\ Len(f_yielded) = 2
    /\ \A k \in DOMAIN f_yielded : f_yielded[k].src = 1

\* C15: a failing collector never makes fetch_all() raise; when fetch_all()
\* ends, every collector listed after a failed one has been invoked, and
\* what any collector produced has been yielded.
C15_FailureNeverAbortsMerge ==
    /\ f_pc /= "raised"
    /\ f_pc = "done" =>
           \A r \in f_failed :
               \A src \in (r[1] + 1)..Len(Sources) : <<src, 1>> \in f_fetched
    /\ f_produced \subseteq YieldedStrings

\* C15 witness: fetch_all() has ended, the first collector failed, and a
\* later collector's string is in the merged sequence.
C15_Witness ==
    /\ f_pc = "done"
    /\ <<1, 1>> \in f_failed
    /\ \E k \in DOMAIN f_yielded : f_yielded[k].src > 1

\* the collector src failed on one of its URLs
CollectorFailed(src) == \E r \in f_failed : r[1] = src

\* C16 as stated: no string in the merged sequence comes from a collector
\* that failed, whether it was produced before the failure or from another
\* URL of that collector.
C16_FailedCollectorContributesNothing ==
    \A k \in DOMAIN f_yielded : ~CollectorFailed(f_yielded[k].src)

\* C16 amended: a failure ends only the read of the URL it occurs in.  The
\* failed URL produces nothing after the failure, the collector's other
\* URLs are still read, and every string produced before the failure stays
\* in the merged sequence.
C16_FailureEndsOnlyItsUrl ==
    /\ (f_pc = "iterate") => <<f_src, f_url>> \notin f_failed
    /\ \A r \in f_failed :
           (f_pc = "done" \/ f_src > r[1]) =>
               \A u \in 1..SourceUrls[r[1]] : <<r[1], u>> \in f_fetched
    /\ f_produced \subseteq YieldedStrings
    /\ \A k \in DOMAIN f_yielded :
           <<f_yielded[k].src, f_yielded[k].url>> \in f_fetched

\* C16 witness: fetch_all() has ended; ProxyListDownload failed on its first
\* URL and a string read from its second URL is in the merged sequence, and
\* Geonode failed after a string of it had been yielded.
C16_Witness ==
    /\ f_pc = "done"
    /\ <<5, 1>> \in f_failed
    /\ <<3, 1>> \in f_failed
    /\ \E k \in DOMAIN f_yielded : f_yielded[k].src = 5 /\ f_yielded[k].url = 2
    /\ \E k \in DOMAIN f_yielded : f_yielded[k].src = 3

\* the class of the result probe i returned
ResultClass(i) ==
    IF futures[i].result.origin = None THEN "failed"
    ELSE IF futures[i].result.is_anonymous THEN "anonymous"
    ELSE "transparent"

\* probes i and j had the same stage-1 input: both a failure, or both an
\* answer with the same origin list
SameStage1Input(i, j) ==
    LET fi == Stage1Exception(futures[i].resp_ip) /= ""
        fj == Stage1Exception(futures[j].resp_ip) /= ""
    IN  /\ fi = fj
        /\ ~fi => OriginIps(OriginField(futures[i].resp_ip)) =
                      OriginIps(OriginField(futures[j].resp_ip))

\* probe i issued the headers request
Stage2Issued(i) == futures[i].resp_headers.kind /= "none"

\* probes i and j had the same stage-2 input, as far as both issued the
\* headers request: both a failure, or both the same header map
SameStage2Input(i, j) ==
    (Stage2Issued(i) /\ Stage2Issued(j)) =>
        LET fi == Stage2Exception(futures[i].resp_headers) /= ""
            fj == Stage2Exception(futures[j].resp_headers) /= ""
        IN  /\ fi = fj
            /\ ~fi => futures[i].resp_headers = futures[j].resp_headers

\* the result _check_anonymous gives on the inputs of probe i alone
OwnResult(i) ==
    LET f == futures[i]
        s1 == Stage1(f.proxy, real_ip, f.resp_ip)
    IN  IF s1.final THEN s1.result
        ELSE Stage2(f.proxy, real_ip, s1.result.origin, f.resp_headers)

\* the candidates of class c the loop has handled
Handled(c) == {i \in consumed : ResultClass(i) = c}

C18_InFlightAtMostMaxWorkers == Cardinality(InFlight) <= max_workers

\* C18 witness: a pool of one thread is running one probe while another
\* candidate waits in the queue.
C18_Witness ==
    /\ max_workers = 1
    /\ Cardinality(InFlight) = 1
    /\ \E i \in DOMAIN futures : futures[i].st = "queued"

\* C19: when run() has returned, every candidate of getAll() has been
\* submitted, its probe has returned, and the loop has handled its result.
C19_ReturnsAfterEveryResult ==
    pc = "returned" =>
        /\ Len(futures) = Len(all_proxies)
        /\ \A i \in DOMAIN futures : futures[i].st = "done"
        /\ consumed = DOMAIN futures

\* C19 witness: run() has returned after both of two candidates were
\* handled, one counted as failed and the other stored as Anonymous.
C19_Witness ==
    /\ pc = "returned"
    /\ consumed = {1, 2}
    /\ failed_count = 1
    /\ anonymous_count = 1

\* C20: whenever a probe has been submitted, _get_real_ip has finished and
\* has issued at most one request, so no identity request runs beside a
\* probe; and once it has finished, the identity handed to the probes never
\* changes.
C20_IdentityResolvedOnceBeforeProbes ==
    /\ [](futures /= <<>> =>
              /\ pc \notin {"start", "get_all"}
              /\ net_requests <= 1)
    /\ [][pc /= "start" => real_ip' = real_ip]_vars

\* C20 witness: the identity request answered with an address, and both
\* probes of the run have been started with it.
C20_Witness ==
    /\ Truthy(real_ip)
    /\ net_requests = 1
    /\ Len(futures) = 2
    /\ \A i \in DOMAIN futures : futures[i].st = "stage1"

\* call k of _get_real_ip issued its request and the try block ran through
RequestSucceeded(k) == id_calls[k].requests = 1 /\ ~id_calls[k].caught

\* C21 as stated: the first call issues one request, and after a call whose
\* request succeeded every later call issues no request and returns the
\* value of that call.
C21_MemoizedAfterSuccessfulRequest ==
    /\ id_calls /= <<>> => id_calls[1].requests = 1
    /\ \A k, l \in DOMAIN id_calls :
           (k < l /\ RequestSucceeded(k)) =>
               /\ id_calls[l].requests = 0
               /\ id_calls[l].value = id_calls[k].value

\* C21 amended: the first call issues one request; after a call that
\* returned a non-empty address every later call issues no request and
\* returns that address; while no call has returned a non-empty address
\* (failures, and answers whose origin is missing or empty) every call
\* issues one request; and the requests issued are those of the calls.
C21_MemoizedAfterNonEmptyAddress ==
    /\ id_calls /= <<>> => id_calls[1].requests = 1
    /\ \A k, l \in DOMAIN id_calls :
           (k < l /\ Truthy(id_calls[k].value)) =>
               /\ id_calls[l].requests = 0
               /\ id_calls[l].value = id_calls[k].value
    /\ \A l \in DOMAIN id_calls :
           (\A k \in 1..(l - 1) : ~Truthy(id_calls[k].value)) =>
               id_calls[l].requests = 1
    /\ net_requests =
           Cardinality({k \in DOMAIN id_calls : id_calls[k].requests = 1})

\* C21 witness: the first call was answered without an address and returned
\* the empty string, the second call asked again and got an address, and the
\* third call returned that address without a request.
C21_Witness ==
    /\ pc = "identity"
    /\ Len(id_calls) = 3
    /\ RequestSucceeded(1)
    /\ id_calls[1].value = <<>>
    /\ id_calls[2].requests = 1
    /\ Truthy(id_calls[2].value)
    /\ id_calls[3].requests = 0
    /\ id_calls[3].value = id_calls[2].value
    /\ net_requests = 2

\* the identity request of this run failed: its try block raised, or the
\* answer held no address
IdentityFailed ==
    /\ id_calls /= <<>>
    /\ \/ id_calls[1].caught
       \/ id_calls[1].value = <<>>

\* C22: a failed identity request (timeout, connection error, HTTP error,
\* unparseable or address-less answer) makes _get_real_ip return None, or
\* the empty string when the answer held no address, and never anything
\* else; run() then hands that unknown value to every probe, is ended by no
\* exception other than one of putAnonymous, calls Transparent only a
\* candidate with more or fewer than one origin, and returns counters that
\* cover every candidate.
C22_IdentityFailureIsNotFatal ==
    /\ \A k \in DOMAIN id_calls :
           id_calls[k].caught => id_calls[k].value = None
    /\ IdentityFailed =>
           /\ ~Truthy(real_ip)
           /\ pc = "raised" => put_calls /= <<>>
           /\ \A i \in DOMAIN futures :
                  (futures[i].st = "done" /\ ResultClass(i) = "transparent") =>
                      Len(ObservedOriginIps(i)) /= 1
           /\ pc = "returned" =>
                  /\ Len(futures) = Len(all_proxies)
                  /\ consumed = DOMAIN futures
                  /\ anonymous_count + transparent_count + failed_count =
                         Len(all_proxies)

\* C22 witness: the identity request raised, and run() has returned after
\* two candidates, one stored as Anonymous and one counted as Transparent.
C22_Witness ==
    /\ pc = "returned"
    /\ id_calls[1].caught
    /\ real_ip = None
    /\ Len(all_proxies) = 2
    /\ anonymous_count = 1
    /\ transparent_count = 1

\* the yielded item x was produced before the yielded item y: by an earlier
\* collector, from an earlier URL of the same collector, or earlier from the
\* same URL
ProducedBefore(x, y) ==
    \/ x.src < y.src
    \/ x.src = y.src /\ x.url < y.url
    \/ x.src = y.src /\ x.url = y.url /\ x.n < y.n

\* the read r comes before the read q in the order of sources and urls
ReadBefore(r, q) == r[1] < q[1] \/ (r[1] = q[1] /\ r[2] < q[2])

\* C23: the merged sequence is in production order: an endpoint of an
\* earlier collector stands before every endpoint of a later one, and the
\* endpoints of one collector stand in the order in which it first produced
\* them; a collector is started only when every read before it has been
\* made, and nothing is yielded for a collector later than the running one.
C23_MergeKeepsOrder ==
    /\ \A k, l \in DOMAIN f_yielded :
           k < l => ProducedBefore(f_yielded[k], f_yielded[l])
    /\ \A q \in f_fetched :
           /\ ReadBefore(q, <<f_src, f_url>>) \/ q = <<f_src, f_url>>
           /\ \A r \in AllReads : ReadBefore(r, q) => r \in f_fetched
    /\ \A k \in DOMAIN f_yielded : f_yielded[k].src <= f_src

\* C23 witness: fetch_all() has ended with two endpoints, the first from
\* ProxyScrape and the second from the second URL of ProxyListDownload,
\* which had produced a repeat of the first before it.
C23_Witness ==
    /\ f_pc = "done"
    /\ Len(f_yielded) = 2
    /\ f_yielded[1].src = 2
    /\ f_yielded[2].src = 5
    /\ f_yielded[2].url = 2
    /\ f_yielded[2].n = 2

\* C24: the loop handles a result only when every candidate has been
\* submitted, and whenever the loop is running and some probe has returned
\* a result not yet handled, an iteration of the loop on a completed
\* future is possible, also while a candidate submitted earlier is still
\* queued or in flight.
C24_NoHeadOfLineBlocking ==
    /\ put_calls /= <<>> \/ consumed /= {} => submitted = Len(all_proxies)
    /\ (pc = "loop" /\ \E i \in DOMAIN futures :
                           futures[i].st = "done" /\ i \notin consumed)
           => ENABLED RunConsume

\* C24 witness: the candidate submitted second has been counted and written
\* to the sink while the probe of the candidate submitted first is still in
\* flight.
C24_Witness ==
    /\ pc = "loop"
    /\ consumed = {2}
    /\ 1 \in InFlight
    /\ sink = <<futures[2].proxy>>
    /\ anonymous_count = 1

\* what _check_anonymous returns for the proxy p on the answers probe i had
ResultWithProxy(p, i) ==
    LET f == futures[i]
        s1 == Stage1(p, real_ip, f.resp_ip)
    IN  IF s1.final THEN s1.result
        ELSE Stage2(p, real_ip, s1.result.origin, f.resp_headers)

LoopState ==
    <<anonymous_count, transparent_count, failed_count, sink, put_calls,
      consumed>>

\* C26: a step of a probe thread or of the submission leaves the counters,
\* the sink and the calls of putAnonymous as they are; they change only in
\* an iteration of the as_completed loop, which changes no future, adds at
\* most one call of putAnonymous and at most one to the counters: the
\* updates come one after the other, whatever the pool size.
C26_OnlyTheLoopWritesSharedState ==
    [][/\ futures' /= futures => LoopState' = LoopState
       /\ LoopState' /= LoopState =>
              /\ pc = "loop"
              /\ futures' = futures
              /\ Len(put_calls') <= Len(put_calls) + 1
              /\ Len(sink') <= Len(sink) + 1
              /\ anonymous_count' + transparent_count' + failed_count' <=
                     anonymous_count + transparent_count + failed_count + 1]_vars

\* C26 witness: with a pool of two both probes have returned Anonymous; the
\* loop has stored and counted the second candidate and has the first one
\* still to handle.
C26_Witness ==
    /\ max_workers = 2
    /\ pc = "loop"
    /\ Len(futures) = 2
    /\ AnonymousResult(1)
    /\ AnonymousResult(2)
    /\ consumed = {2}
    /\ put_calls = <<futures[2].proxy>>
    /\ anonymous_count = 1

====
